---- MODULE Spec2Model ----
(***************************************************************************)
(* Timeline reconciliation of ViDubb (src/app.py, VideoDubbing.__init__):  *)
(* the leading-gap initialisation, the per-sentence reconciliation loop    *)
(* (synthesis, tail trim, theta branch, trailing silence, silence credit)  *)
(* and the assembly of the final track.                                    *)
(*                                                                         *)
(* Time is counted in integer milliseconds, the resolution of pydub's      *)
(* len(AudioSegment).  A sentence time of the code (float seconds) is the  *)
(* same number of milliseconds here, so 0.8 s is 800 and theta = lo / lt   *)
(* is compared exactly, as a ratio of two integers.  An audio buffer is a  *)
(* sequence of segments, each either silence or synthesized speech.        *)
(*                                                                         *)
(* Specifications: Spec (the reconciliation loop), SegSpec (the sentence   *)
(* segmenter), BuildSpec (diarization filter and record loop), TransSpec   *)
(* (tools/translation_service.py), TtsSpec (config/google_cloud_setup.py,  *)
(* tools/enhanced_tts.py, tools/google_tts.py) and FilesSpec (the result   *)
(* files of process_video).  Each one leaves the variables of the others   *)
(* at rest.                                                                *)
(***************************************************************************)
EXTENDS Integers, Sequences, FiniteSets, TLC

(* ---------------- bounds and input sets ---------------- *)

MaxSentences == 2

\* start of the first sentence (leading gap), ms
LeadGaps == {0, 300, 800, 1200}
\* start[k+1] - end[k], ms; negative when two spans overlap
Gaps == {-200, 300, 800, 1200}
\* end[k] - start[k], ms
Slots == {0, 440, 2000, 2500}
\* length of the synthesized file before the tail is trimmed, ms
RawClips == {350, 1350, 2850, 4350}
\* source video duration minus the end of the last sentence, ms
VideoTails == {-100, 0, 500}

(* ---------------- program constants ---------------- *)

\* 0.8 s, the cap of the carried silence (app.py 504-506, 578-580)
Cap == 800
\* tip = 350 (app.py 513)
tip == 350
\* 0.44 as the ratio ThetaNum / ThetaDen (app.py 555, 564)
ThetaNum == 44
ThetaDen == 100

(* ---------------- audio buffers (pydub.AudioSegment) ---------------- *)

\* AudioSegment.silent(duration=d)
Silent(d) == <<[kind |-> "silence", dur |-> d, src |-> 0]>>

\* the synthesized speech of sentence k, d ms long
Speech(k, d) == <<[kind |-> "speech", dur |-> d, src |-> k]>>

RECURSIVE Duration(_)
\* len(audio)
Duration(a) == IF a = <<>> THEN 0 ELSE Head(a).dur + Duration(Tail(a))

\* audio[:len(audio)-tip] of a file raw ms long
TrimTail(raw) == IF raw >= tip THEN raw - tip ELSE 0

Max(a, b) == IF a >= b THEN a ELSE b

Abs(a) == IF a >= 0 THEN a ELSE 0 - a

(* ---------------- the sentence records ---------------- *)

RECURSIVE MkRecords(_, _, _)
\* records built from a leading gap, gaps and slots; each is <<start, end>>
MkRecords(g, s, prevEnd) ==
    IF g = <<>> THEN <<>>
    ELSE LET st == prevEnd + Head(g)
             en == st + Head(s)
         IN  <<[start |-> st, end |-> en]>> \o MkRecords(Tail(g), Tail(s), en)

RecordLists ==
    {<<>>} \cup
    UNION {{MkRecords(<<lg>> \o g, s, 0) :
                lg \in LeadGaps, g \in [1..(n-1) -> Gaps], s \in [1..n -> Slots]} :
           n \in 1..MaxSentences}

(* ---------------- the silence budget ---------------- *)

\* the prefix keeps the whole leading gap
LeadingSplit_FullPrefix(leadingGap) ==
    IF leadingGap >= Cap
    THEN [previous_silence_time |-> Cap, natural_scilence |-> leadingGap]
    ELSE [previous_silence_time |-> leadingGap, natural_scilence |-> 0]

\* app.py 501-509: the leading gap split into carried credit and prefix
LeadingSplit(leadingGap) ==
    IF leadingGap >= Cap
    THEN [previous_silence_time |-> Cap, natural_scilence |-> leadingGap - Cap]
    ELSE [previous_silence_time |-> leadingGap, natural_scilence |-> 0]

\* app.py 577: natural_scilence = max(records[i+1][2] - records[i][3], 0)
GapAfter(recs, k) == Max(recs[k + 1].start - recs[k].end, 0)

\* the credit is not capped
GapSplit_NoCap(gap) == [previous_silence_time |-> gap, natural_scilence |-> 0]

\* the whole gap is appended although 0.8 s of it is carried as credit
GapSplit_KeepAll(gap) ==
    IF gap >= Cap
    THEN [previous_silence_time |-> Cap, natural_scilence |-> gap]
    ELSE [previous_silence_time |-> gap, natural_scilence |-> 0]

\* the excess above the cap is discarded
GapSplit_DropExcess(gap) ==
    IF gap >= Cap
    THEN [previous_silence_time |-> Cap, natural_scilence |-> 0]
    ELSE [previous_silence_time |-> gap, natural_scilence |-> 0]

\* app.py 578-583: the gap split into the next credit and the silence
\* appended now
GapSplit(gap) ==
    IF gap >= Cap
    THEN [previous_silence_time |-> Cap, natural_scilence |-> gap - Cap]
    ELSE [previous_silence_time |-> gap, natural_scilence |-> 0]

(* ---------------- the theta branch ---------------- *)

\* app.py 548: lo = max(records[i][3] - records[i][2], 0)
SlotOf(rec) == Max(rec.end - rec.start, 0)

\* theta = 1 taken into the stretch branch
Regime_StretchAtOne(lo, lt) ==
    IF lo <= lt /\ lo * ThetaDen > ThetaNum * lt THEN "stretch"
    ELSE IF lo * ThetaDen < ThetaNum * lt THEN "drop"
    ELSE "pad"

\* app.py 549, 555, 564, 567: the branch taken for theta = lo / lt, lt > 0
Regime(lo, lt) ==
    IF lo < lt /\ lo * ThetaDen > ThetaNum * lt THEN "stretch"
    ELSE IF lo * ThetaDen < ThetaNum * lt THEN "drop"
    ELSE "pad"

\* theta_prim passed where 1 / theta_prim is meant
AtempoFactor_Inverse(lo, prev, lt) == [num |-> lo + prev, den |-> lt]

\* app.py 557-558: atempo = 1 / theta_prim with theta_prim = (lo + prev) / lt,
\* kept as the fraction num / den
AtempoFactor(lo, prev, lt) == [num |-> lt, den |-> lo + prev]

\* ffmpeg's atempo filter: a clip lt ms long played at speed num / den
Atempo(k, lt, f) == Speech(k, (lt * f.den) \div f.num)

\* no fallback when the tempo tool fails
Adjusted_NoFallback(k, lo, lt, prev, toolOk) ==
    LET r == Regime(lo, lt)
    IN  IF r = "stretch"
        THEN IF toolOk THEN Atempo(k, lt, AtempoFactor(lo, prev, lt))
             ELSE Speech(k, lt)
        ELSE IF r = "drop" THEN Silent(lo + prev)
        ELSE Silent(prev) \o Speech(k, lt)

\* the branch chosen on theta_prim = (lo + prev) / lt instead of theta
Adjusted_BranchOnPrim(k, lo, lt, prev, toolOk) ==
    LET r == Regime(lo + prev, lt)
    IN  IF r = "stretch"
        THEN IF toolOk THEN Atempo(k, lt, AtempoFactor(lo, prev, lt))
             ELSE Silent(lo + prev)
        ELSE IF r = "drop" THEN Silent(lo + prev)
        ELSE Silent(prev) \o Speech(k, lt)

\* app.py 555-570: the audio written to su_audio_chunks/{i}.wav by the branch
Adjusted(k, lo, lt, prev, toolOk) ==
    LET r == Regime(lo, lt)
    IN  IF r = "stretch"
        THEN IF toolOk THEN Atempo(k, lt, AtempoFactor(lo, prev, lt))
             ELSE Silent(lo + prev)
        ELSE IF r = "drop" THEN Silent(lo + prev)
        ELSE Silent(prev) \o Speech(k, lt)

\* the credit left out of the budget of the chunk
TotalSlot_NoCredit(rec, prev) == rec.end - rec.start

\* app.py 575: lo = records[i][3] - records[i][2] + previous_silence_time
TotalSlot(rec, prev) == rec.end - rec.start + prev

\* a chunk shorter than its budget is not filled up
Shortfall_None(lo, lt) == 0

\* app.py 586, 590: max(lo - lt, 0)
Shortfall(lo, lt) == Max(lo - lt, 0)

(* ---------------- state ---------------- *)

VARIABLES
    records,                \* the sentence records, <<start, end>> in ms
    pc,                     \* "start", "loop", "done" or "aborted"
    i,                      \* the loop index of app.py 515, from 1
    previous_silence_time,  \* the carried silence credit
    natural_scilence,       \* the silence emitted literally
    combined,               \* the track being assembled
    su_audio_chunks,        \* su_audio_chunks/{k}.wav, for the k that exist
    total_length,           \* duration of the source video, read at 614-615
    log                     \* one entry per finished iteration of the loop

\* the sentence segmenter (app.py 247-298)
VARIABLES
    time_stamped,           \* the words, [word, start, end], word a list of characters
    sentences,              \* the sentence strings of the tokenizer
    letter,                 \* the character counter of app.py 271
    si,                     \* the loop index of app.py 272, from 1
    time_stamped_sentances, \* dict sentence text -> [start, end], in insertion order
    record,                 \* the list of app.py 295-298
    spc                     \* "idle", "seg", "done" or "aborted"

segVars == <<time_stamped, sentences, letter, si, time_stamped_sentances,
             record, spc>>

recVars == <<records, pc, i, previous_silence_time, natural_scilence, combined,
             su_audio_chunks, total_length, log>>

\* diarization filter, fallback speaker and the record loop (app.py 108-114,
\* 239, 444-485)
VARIABLES
    diarization,            \* the turns of the pipeline, [start, end, speaker]
    speakers_rolls,         \* dict (start, end) -> speaker, in insertion order
    most_occured_speaker,   \* the fallback speaker of app.py 239
    new_record,             \* the sentence spans, [start, end]
    Context_translation,    \* TRUE when an API key is given
    built,                  \* the list `records` of app.py 444, as it is built
    bi,                     \* the loop index of app.py 447, from 1
    bpc                     \* "idle", "diarize", "mode", "build", "done",
                            \* "abort_mode" or "abort_translate"

bldVars == <<diarization, speakers_rolls, most_occured_speaker, new_record,
             Context_translation, built, bi, bpc>>

\* the translation service (tools/translation_service.py)
VARIABLES
    groq_api_key,           \* TRUE when a Groq key is passed to the constructor
    groq_client,            \* TRUE when self.groq_client is a client
    openrouter_api_key,     \* TRUE when self.openrouter_api_key is a key
    translation,            \* the last call of translate, NoCall before it
    tpc                     \* "idle", "new" or "ready"

trVars == <<groq_api_key, groq_client, openrouter_api_key, translation, tpc>>

\* credentials and the TTS backends (config/google_cloud_setup.py,
\* tools/enhanced_tts.py, tools/google_tts.py, app.py 487-491)
VARIABLES
    environ,                \* os.environ, the two variables read
    dotenv,                 \* the same two keys in the .env file
    on_disk,                \* the paths for which os.path.exists is true
    env_at_call,            \* os.environ as setup_google_cloud_credentials is entered
    google_credentials_path,\* what setup_google_cloud_credentials returned
    wants_google,           \* VideoDubbing.use_google_tts, the user's choice
    use_google_tts,         \* EnhancedTTS.use_google_tts
    google_tts,             \* None, or the GoogleTTS object by its `available`
    coqui_tts,              \* TRUE when self.coqui_tts is an engine
    coqui_tried,            \* TRUE when the constructor ran lines 29-35
    synthesis,              \* the last call of synthesize_speech, NoCall before it
    epc                     \* "idle", "creds", "new" or "ready"

ttsVars == <<environ, dotenv, on_disk, env_at_call, google_credentials_path,
             wants_google, use_google_tts, google_tts, coqui_tts, coqui_tried,
             synthesis, epc>>

\* the result files (app.py 90-91, 644-698, 720-761)
VARIABLES
    use_wav2lip,            \* argument of process_video
    bg_sound,               \* argument of process_video
    LipSync,                \* VideoDubbing.LipSync
    Voice_denoising,        \* VideoDubbing.Voice_denoising
    leftover,               \* the files present when process_video is called
    tools,                  \* for each external tool, whether its run succeeds
    cwd_files,              \* the files present, by path
    raised,                 \* TRUE when a step of VideoDubbing raised
    returned,               \* what process_video returned, NoCall before it
    fpc                     \* "idle", "call", "overlay", "denoise", "lipsync",
                            \* "moves", "return" or "returned"

fileVars == <<use_wav2lip, bg_sound, LipSync, Voice_denoising, leftover, tools,
              cwd_files, raised, returned, fpc>>

auxVars == <<trVars, ttsVars, fileVars>>

vars == <<records, pc, i, previous_silence_time, natural_scilence, combined,
          su_audio_chunks, total_length, log, segVars, bldVars, auxVars>>

\* the record loop at rest
BuildIdle ==
    /\ diarization = <<>>
    /\ speakers_rolls = <<>>
    /\ most_occured_speaker = "none"
    /\ new_record = <<>>
    /\ Context_translation = FALSE
    /\ built = <<>>
    /\ bi = 1
    /\ bpc = "idle"

\* the segmenter at rest
SegIdle ==
    /\ time_stamped = <<>>
    /\ sentences = <<>>
    /\ letter = 0
    /\ si = 1
    /\ time_stamped_sentances = <<>>
    /\ record = <<>>
    /\ spc = "idle"

None == "<None>"

NoCall == [called |-> FALSE]

\* the translation service at rest
TransIdle ==
    /\ groq_api_key = FALSE
    /\ groq_client = FALSE
    /\ openrouter_api_key = FALSE
    /\ translation = NoCall
    /\ tpc = "idle"

\* the TTS backends at rest
TtsIdle ==
    /\ environ = <<>>
    /\ dotenv = <<>>
    /\ on_disk = {}
    /\ env_at_call = <<>>
    /\ google_credentials_path = None
    /\ wants_google = FALSE
    /\ use_google_tts = FALSE
    /\ google_tts = None
    /\ coqui_tts = FALSE
    /\ coqui_tried = FALSE
    /\ synthesis = NoCall
    /\ epc = "idle"

\* the result files at rest
FilesIdle ==
    /\ use_wav2lip = FALSE
    /\ bg_sound = FALSE
    /\ LipSync = FALSE
    /\ Voice_denoising = FALSE
    /\ leftover = {}
    /\ tools = <<>>
    /\ cwd_files = {}
    /\ raised = FALSE
    /\ returned = NoCall
    /\ fpc = "idle"

AuxIdle == TransIdle /\ TtsIdle /\ FilesIdle

NoFactor == [num |-> 0, den |-> 0]

\* the entry of an iteration left by `continue` (app.py 539-541)
SkippedEntry(prev) ==
    [synth |-> FALSE, pending |-> prev, lo |-> 0, lt |-> 0, regime |-> "none",
     tempo |-> <<>>, toolOk |-> FALSE, pre |-> <<>>, trail |-> 0, extra |-> 0,
     gap |-> 0, last |-> FALSE, next |-> prev]

Init ==
    /\ records \in RecordLists
    /\ \A k \in 1..Len(records) : records[k].start >= 0
    /\ pc = "start"
    /\ i = 1
    /\ previous_silence_time = 0
    /\ natural_scilence = 0
    /\ combined = <<>>
    /\ su_audio_chunks = <<>>
    /\ total_length = 0
    /\ log = <<>>
    /\ SegIdle
    /\ BuildIdle
    /\ AuxIdle

(* ---------------- actions ---------------- *)

\* app.py 501: records[0] of an empty list raises IndexError
EmptyRecords ==
    /\ pc = "start"
    /\ records = <<>>
    /\ pc' = "aborted"
    /\ UNCHANGED <<records, i, previous_silence_time, natural_scilence,
                   combined, su_audio_chunks, total_length, log>>
    /\ UNCHANGED <<segVars, bldVars, auxVars>>

\* app.py 501-511
LeadingGapInit ==
    /\ pc = "start"
    /\ records # <<>>
    /\ LET sp == LeadingSplit(records[1].start)
       IN  /\ previous_silence_time' = sp.previous_silence_time
           /\ natural_scilence' = sp.natural_scilence
           /\ combined' = Silent(sp.natural_scilence)
    /\ pc' = "loop"
    /\ UNCHANGED <<records, i, su_audio_chunks, total_length, log>>
    /\ UNCHANGED <<segVars, bldVars, auxVars>>

\* app.py 515-541: synthesize_speech returns None, the iteration is left
SynthesisFails ==
    /\ pc = "loop"
    /\ i <= Len(records)
    /\ log' = Append(log, SkippedEntry(previous_silence_time))
    /\ i' = i + 1
    /\ UNCHANGED <<records, pc, previous_silence_time, natural_scilence,
                   combined, su_audio_chunks, total_length>>
    /\ UNCHANGED <<segVars, bldVars, auxVars>>

\* app.py 543-549: the trimmed clip is empty, lo / lt raises
\* ZeroDivisionError
EmptyClip ==
    /\ pc = "loop"
    /\ i <= Len(records)
    /\ \E raw \in RawClips : TrimTail(raw) = 0
    /\ pc' = "aborted"
    /\ UNCHANGED <<records, i, previous_silence_time, natural_scilence,
                   combined, su_audio_chunks, total_length, log>>
    /\ UNCHANGED <<segVars, bldVars, auxVars>>

\* app.py 515-596: one iteration of the loop with a synthesized clip
Reconcile ==
    /\ pc = "loop"
    /\ i <= Len(records)
    /\ \E raw \in RawClips :
         LET lt   == TrimTail(raw)
             lo   == SlotOf(records[i])
             prev == previous_silence_time
         IN  /\ lt > 0
             /\ \E toolOk \in (IF Regime(lo, lt) = "stretch" THEN BOOLEAN ELSE {TRUE}) :
                  LET r     == Regime(lo, lt)
                      out   == Adjusted(i, lo, lt, prev, toolOk)
                      lt2   == Duration(out)
                      lo2   == TotalSlot(records[i], prev)
                      last  == ~ (i + 1 <= Len(records))
                      gap   == IF last THEN 0 ELSE GapAfter(records, i)
                      sp    == GapSplit(gap)
                      extra == IF last THEN 0 ELSE sp.natural_scilence
                      trail == Shortfall(lo2, lt2) + extra
                  IN  /\ su_audio_chunks' = (i :> (out \o Silent(trail))) @@ su_audio_chunks
                      /\ previous_silence_time' =
                            IF last THEN prev ELSE sp.previous_silence_time
                      /\ natural_scilence' =
                            IF last THEN natural_scilence ELSE sp.natural_scilence
                      /\ log' = Append(log,
                            [synth |-> TRUE, pending |-> prev, lo |-> lo, lt |-> lt,
                             regime |-> r,
                             tempo |-> IF r = "stretch"
                                       THEN <<AtempoFactor(lo, prev, lt)>> ELSE <<>>,
                             toolOk |-> (r = "stretch" /\ toolOk),
                             pre |-> out, trail |-> trail, extra |-> extra,
                             gap |-> gap, last |-> last,
                             next |-> previous_silence_time'])
    /\ i' = i + 1
    /\ UNCHANGED <<records, pc, combined, total_length>>
    /\ UNCHANGED <<segVars, bldVars, auxVars>>

RECURSIVE ConcatChunks_StopAtGap(_, _, _)
\* the concatenation stops at the first index that has no file
ConcatChunks_StopAtGap(files, k, n) ==
    IF k > n \/ k \notin DOMAIN files THEN <<>>
    ELSE files[k] \o ConcatChunks_StopAtGap(files, k + 1, n)

RECURSIVE ConcatChunks_Reversed(_, _, _)
\* the files taken in decreasing index
ConcatChunks_Reversed(files, k, n) ==
    IF k > n THEN <<>>
    ELSE ConcatChunks_Reversed(files, k + 1, n)
         \o (IF k \in DOMAIN files THEN files[k] ELSE <<>>)

RECURSIVE ConcatChunks(_, _, _)
\* app.py 601-611: the files of su_audio_chunks in increasing index
ConcatChunks(files, k, n) ==
    IF k > n THEN <<>>
    ELSE (IF k \in DOMAIN files THEN files[k] ELSE <<>>) \o ConcatChunks(files, k + 1, n)

\* app.py 601-619
Assemble ==
    /\ pc = "loop"
    /\ i > Len(records)
    /\ \E tail \in VideoTails :
         /\ records[Len(records)].end + tail >= 0
         /\ total_length' = records[Len(records)].end + tail
         /\ combined' = combined
                \o ConcatChunks(su_audio_chunks, 1, Len(records))
                \o Silent(Abs(total_length' - records[Len(records)].end))
    /\ pc' = "done"
    /\ UNCHANGED <<records, i, previous_silence_time, natural_scilence,
                   su_audio_chunks, log>>
    /\ UNCHANGED <<segVars, bldVars, auxVars>>

Next ==
    \/ EmptyRecords
    \/ LeadingGapInit
    \/ SynthesisFails
    \/ EmptyClip
    \/ Reconcile
    \/ Assemble

Spec == Init /\ [][Next]_vars

(* ---------------- properties ---------------- *)

\* the iterations that synthesized a clip and went through the branch
Done == {k \in 1..Len(log) : log[k].synth}

PureSilence(a) == \A n \in 1..Len(a) : a[n].kind = "silence"

PureSpeech(a) == \A n \in 1..Len(a) : a[n].kind = "speech"

\* C1: the carried silence credit is between 0 and 0.8 s after the
\* leading-gap initialisation and after every iteration of the loop.
C1_CreditInRange ==
    /\ previous_silence_time >= 0
    /\ previous_silence_time <= Cap
    /\ \A k \in 1..Len(log) : log[k].next >= 0 /\ log[k].next <= Cap

\* a gap above the cap was split and the credit stands at the cap
C1_Witness ==
    /\ pc = "loop"
    /\ \E k \in Done : log[k].gap > Cap /\ log[k].next = Cap

\* C2: every sentence with theta <= 0.44, the value 0.44 included, has its
\* clip discarded: the chunk before the trailing correction is pure silence
\* of duration slot + pendingSilence.
C2_DropInclusive ==
    \A k \in Done :
        log[k].lo * ThetaDen <= ThetaNum * log[k].lt =>
            /\ PureSilence(log[k].pre)
            /\ Duration(log[k].pre) = log[k].lo + log[k].pending

\* C3: a sentence with 0.44 < theta < 1 has the tempo tool invoked exactly
\* once, with speed factor 1 / targetRatio where targetRatio =
\* (slot + pendingSilence) / clipDuration, and on success the adjusted clip is
\* the speech, slot + pendingSilence long.
C3_StretchFactor ==
    \A k \in Done :
        (log[k].lo < log[k].lt /\ log[k].lo * ThetaDen > ThetaNum * log[k].lt) =>
            /\ Len(log[k].tempo) = 1
            /\ log[k].tempo[1].num * (log[k].lo + log[k].pending)
                  = log[k].tempo[1].den * log[k].lt
            /\ log[k].tempo[1].num > 0
            /\ log[k].toolOk =>
                  /\ log[k].pre # <<>>
                  /\ PureSpeech(log[k].pre)
                  /\ Duration(log[k].pre) = log[k].lo + log[k].pending

\* slot 2.0 s, clip 2.5 s, credit 0.3 s: targetRatio 0.92, the clip comes out
\* 2.3 s long
C3_Witness ==
    \E k \in Done :
        /\ log[k].lo = 2000 /\ log[k].lt = 2500 /\ log[k].pending = 300
        /\ log[k].toolOk
        /\ Len(log[k].tempo) = 1
        /\ log[k].tempo[1].den * 100 = 92 * log[k].tempo[1].num
        /\ Duration(log[k].pre) = 2300

\* C4: a sentence with theta >= 1, the value 1 included, keeps its clip at
\* its own tempo with pendingSilence of silence in front: the chunk before
\* the trailing correction lasts clipDuration + pendingSilence.
C4_PadRegime ==
    \A k \in Done :
        log[k].lo >= log[k].lt =>
            /\ log[k].tempo = <<>>
            /\ log[k].pre = Silent(log[k].pending) \o Speech(k, log[k].lt)
            /\ Duration(log[k].pre) = log[k].lt + log[k].pending

\* theta exactly 1 with a positive credit in front of the clip
C4_Witness ==
    \E k \in Done :
        /\ log[k].lo = log[k].lt
        /\ log[k].pending > 0
        /\ log[k].pre = Silent(log[k].pending) \o Speech(k, log[k].lt)

\* the silence appended now for a gap: what exceeds the cap
Excess(gap) == IF gap >= Cap THEN gap - Cap ELSE 0

\* the credit carried for a gap: the gap up to the cap
Credit(gap) == IF gap >= Cap THEN Cap ELSE gap

\* C5: after a sentence that is not the last, with gap = max(start[i+1] -
\* end[i], 0): a gap of 0.8 s or more leaves a credit of 0.8 s and gap - 0.8 s
\* of extra silence, a smaller gap leaves the gap as credit and no extra
\* silence; credit plus extra silence is the gap.
C5_TrackerUpdate ==
    \A k \in Done :
        k < Len(records) =>
            LET gap == Max(records[k + 1].start - records[k].end, 0)
            IN  /\ gap >= Cap => (log[k].next = Cap /\ log[k].extra = gap - Cap)
                /\ gap < Cap => (log[k].next = gap /\ log[k].extra = 0)
                /\ log[k].next + log[k].extra = gap

\* a gap of 1.2 s: credit 0.8 s, extra silence 0.4 s
C5_Witness ==
    \E k \in Done :
        /\ k < Len(records)
        /\ records[k + 1].start - records[k].end = 1200
        /\ log[k].next = 800
        /\ log[k].extra = 400

\* the credit in force for the first sentence
InitialCredit == IF log # <<>> THEN log[1].pending ELSE previous_silence_time

\* C6: with leadingGap the start of the first sentence, a leading gap of
\* 0.8 s or more gives an initial credit of 0.8 s and a silence prefix of
\* leadingGap - 0.8 s at the head of the track; a smaller one gives the
\* leading gap as credit and a prefix of zero duration.
C6_LeadingGap ==
    (records # <<>> /\ pc # "start") =>
        /\ combined # <<>>
        /\ Head(combined).kind = "silence"
        /\ Head(combined).dur = Excess(records[1].start)
        /\ InitialCredit = Credit(records[1].start)

\* a leading gap of 1.2 s: credit 0.8 s, prefix 0.4 s at the head of the
\* finished track
C6_Witness ==
    /\ pc = "done"
    /\ records[1].start = 1200
    /\ Head(combined).dur = 400
    /\ log[1].pending = 800

RECURSIVE SumOver(_, _)
\* the sum of f[k] over the k of a finite set of integers
SumOver(f, S) ==
    IF S = {} THEN 0
    ELSE LET k == CHOOSE x \in S : \A y \in S : x <= y
         IN  f[k] + SumOver(f, S \ {k})

\* the silence emitted so far: the prefix and the trailing silence of every
\* chunk, and the final pad once the track is assembled
PrefixSilence == Head(combined).dur

TrailingSilences == SumOver([k \in 1..Len(log) |-> log[k].trail], Done)

FinalPad == IF pc = "done" THEN combined[Len(combined)].dur ELSE 0

EmittedSilence == PrefixSilence + TrailingSilences + FinalPad

\* the pauses of the original timeline between consecutive sentences
InterSentenceGaps ==
    SumOver([k \in 1..Len(records) |->
                IF k < Len(records)
                THEN Max(records[k + 1].start - records[k].end, 0) ELSE 0],
            1..Len(records))

\* C7 as stated: over a whole run the emitted silence (prefix plus every
\* trailing silence) is the sum of the inter-sentence gaps plus the final pad.
C7_SilenceConserved ==
    pc = "done" => EmittedSilence = InterSentenceGaps + FinalPad

\* the gaps that went through the tracker: the leading gap and the gap after
\* every sentence a chunk was produced for
Followed == {k \in Done : k < Len(records)}

SplitGaps ==
    records[1].start
    + SumOver([k \in 1..Len(log) |->
                 IF k < Len(records)
                 THEN Max(records[k + 1].start - records[k].end, 0) ELSE 0],
              Followed)

\* the credit carried out of those gaps
CarriedCredit ==
    InitialCredit + SumOver([k \in 1..Len(log) |-> log[k].next], Followed)

\* the silence added to fill a chunk up to slot + credit
Shortfalls ==
    SumOver([k \in 1..Len(log) |->
                Max(SlotOf(records[k]) + log[k].pending - Duration(log[k].pre), 0)],
            Done)

\* C7 amended: the emitted silence (prefix plus every trailing silence, plus
\* the final pad) is the leading gap plus the gap after every sentence a
\* chunk was produced for, less the credit carried out of those gaps, plus
\* the shortfall max(totalSlot - adjustedDuration, 0) of every chunk, plus
\* the final pad; every such gap is split into credit and literal silence
\* without loss.
C7_SilenceAccounted ==
    (pc \in {"loop", "done"}) =>
        /\ EmittedSilence + CarriedCredit = SplitGaps + Shortfalls + FinalPad
        /\ \A k \in Followed :
              log[k].next + log[k].extra
                 = Max(records[k + 1].start - records[k].end, 0)

\* a finished run of two chunks with a leading gap and a gap above the cap,
\* some of it emitted literally
C7_Witness ==
    /\ pc = "done"
    /\ Len(records) = 2
    /\ Done = {1, 2}
    /\ records[1].start > Cap
    /\ log[1].extra > 0
    /\ Shortfalls > 0

\* C8: the chunk of sentence i is the adjusted clip followed by
\* max(totalSlot - adjustedDuration, 0) + extraSilence of silence, with
\* totalSlot = slot + the credit in force for sentence i and extraSilence the
\* excess of the gap to the next sentence, 0 for the last sentence.
C8_TrailingSilence ==
    \A k \in DOMAIN su_audio_chunks :
        /\ k \in Done
        /\ LET totalSlot == SlotOf(records[k]) + log[k].pending
               extra == IF k = Len(records) THEN 0
                        ELSE Excess(Max(records[k + 1].start - records[k].end, 0))
           IN  su_audio_chunks[k] =
                  log[k].pre
                  \o Silent(Max(totalSlot - Duration(log[k].pre), 0) + extra)

\* a chunk short of its budget, which holds a credit other than the one
\* computed for the next sentence, before a gap above the cap
C8_Witness ==
    \E k \in DOMAIN su_audio_chunks :
        /\ k \in Done
        /\ k < Len(records)
        /\ log[k].pending > 0
        /\ log[k].pending # log[k].next
        /\ SlotOf(records[k]) + log[k].pending > Duration(log[k].pre)
        /\ SlotOf(records[k]) >= Duration(log[k].pre)
        /\ log[k].extra > 0

\* C9: with a non-empty sentence list no failure on a sentence aborts the
\* run.
C9_FailuresContained == records # <<>> => pc # "aborted"

\* C10: an iteration whose tempo tool fails leaves pure silence of slot +
\* pendingSilence as the chunk before the trailing correction, runs the tool
\* once, and goes on to the next sentence with the credit of the gap.
C10_StretchFailure ==
    [][(Len(log') = Len(log) + 1
          /\ log'[Len(log')].regime = "stretch"
          /\ ~ log'[Len(log')].toolOk) =>
            LET e == log'[Len(log')]
            IN  /\ e.pre = Silent(SlotOf(records[i]) + previous_silence_time)
                /\ Len(e.tempo) = 1
                /\ i \in DOMAIN su_audio_chunks'
                /\ pc' = "loop"
                /\ i' = i + 1
                /\ i < Len(records) =>
                      previous_silence_time' =
                         Credit(Max(records[i + 1].start - records[i].end, 0))
      ]_vars

\* the tool failed on a sentence and the next sentence was reconciled with
\* the credit of the gap between the two
C10_Witness ==
    \E k \in Done :
        /\ log[k].regime = "stretch"
        /\ ~ log[k].toolOk
        /\ PureSilence(log[k].pre)
        /\ k + 1 \in Done
        /\ log[k + 1].pending = Credit(records[k + 1].start - records[k].end)
        /\ log[k + 1].pending > 0

RECURSIVE JoinOver(_, _)
\* f[k] for the k of a finite set of integers, joined in increasing k
JoinOver(f, S) ==
    IF S = {} THEN <<>>
    ELSE LET k == CHOOSE x \in S : \A y \in S : x <= y
         IN  f[k] \o JoinOver(f, S \ {k})

\* the trailing silence of the finished track
TrailingPad == Silent(Abs(total_length - records[Len(records)].end))

\* C11: a sentence whose synthesis returns nothing has no chunk stored, the
\* other sentences are still processed in order, and the finished track is
\* the prefix, the chunks of the sentences that synthesized in sentence
\* order, and the trailing pad.
C11_SynthesisFailure ==
    /\ \A k \in 1..Len(log) : ~ log[k].synth => k \notin DOMAIN su_audio_chunks
    /\ pc = "done" =>
          /\ Len(log) = Len(records)
          /\ DOMAIN su_audio_chunks = Done
          /\ combined =
                Silent(Excess(records[1].start))
                \o JoinOver([k \in 1..Len(log) |->
                                log[k].pre \o Silent(log[k].trail)], Done)
                \o TrailingPad

\* the first sentence failed to synthesize, the second is in the finished
\* track
C11_Witness ==
    /\ pc = "done"
    /\ Len(records) = 2
    /\ ~ log[1].synth
    /\ log[2].synth
    /\ \E n \in 1..Len(combined) :
          combined[n].kind = "speech" /\ combined[n].src = 2

\* the sentences the speech segments of a buffer come from, in order
RECURSIVE SpeechSources(_)
SpeechSources(a) ==
    IF a = <<>> THEN <<>>
    ELSE (IF Head(a).kind = "speech" THEN <<Head(a).src>> ELSE <<>>)
         \o SpeechSources(Tail(a))

\* C18: the finished track is the excess leading silence, then the stored
\* chunks in increasing sentence index, then one trailing silence of
\* abs(sourceVideoDuration - lastSentenceEnd); no chunk is moved or repeated.
C18_AssemblyOrder ==
    pc = "done" =>
        /\ combined =
              Silent(Excess(records[1].start))
              \o JoinOver(su_audio_chunks, DOMAIN su_audio_chunks)
              \o TrailingPad
        /\ LET src == SpeechSources(combined)
           IN  \A m, n \in 1..Len(src) : m < n => src[m] < src[n]

\* a finished track with a prefix, the speech of two sentences and a pad
C18_Witness ==
    /\ pc = "done"
    /\ SpeechSources(combined) = <<1, 2>>
    /\ Head(combined).dur > 0
    /\ combined[Len(combined)].dur > 0
    /\ total_length < records[Len(records)].end

\* the spans are ordered and do not overlap, the video ends after the last
\* sentence, every sentence synthesized and no adjusted clip exceeds its
\* budget
Aligned ==
    /\ \A k \in 1..(Len(records) - 1) : records[k + 1].start >= records[k].end
    /\ total_length >= records[Len(records)].end
    /\ Done = 1..Len(records)
    /\ \A k \in Done :
          Duration(log[k].pre) <= SlotOf(records[k]) + log[k].pending

\* C19: under those conditions the finished track lasts as long as the
\* source video.
C19_TrackLength ==
    (pc = "done" /\ Aligned) => Duration(combined) = total_length

\* two sentences, a gap above the cap, a clip shorter than its slot, and
\* a video that goes on after the last sentence
C19_Witness ==
    /\ pc = "done"
    /\ Aligned
    /\ Len(records) = 2
    /\ records[2].start - records[1].end > Cap
    /\ \E k \in Done : Duration(log[k].pre) < SlotOf(records[k]) + log[k].pending
    /\ total_length > records[2].end
    /\ Duration(combined) = total_length

\* what a chunk holds before the trailing correction
Shape(a) ==
    IF PureSilence(a) THEN "silence"
    ELSE IF PureSpeech(a) THEN "speech"
    ELSE "silence+speech"

\* C20: two sentences with the same slot and the same clip duration take
\* the same branch, whatever the credit, the index or the earlier sentences:
\* the same regime, and with the same tool outcome the same kind of chunk.
C20_RegimePure ==
    \A k, m \in Done :
        (log[k].lo = log[m].lo /\ log[k].lt = log[m].lt) =>
            /\ log[k].regime = log[m].regime
            /\ Len(log[k].tempo) = Len(log[m].tempo)
            /\ log[k].toolOk = log[m].toolOk => Shape(log[k].pre) = Shape(log[m].pre)

\* the same slot and clip with two different credits, after a sentence of
\* another regime
C20_Witness ==
    \E k, m \in Done :
        /\ k < m
        /\ log[k].lo = log[m].lo
        /\ log[k].lt = log[m].lt
        /\ log[k].pending # log[m].pending
        /\ log[k].regime = "stretch"
        /\ log[m].regime = "stretch"
        /\ log[k].toolOk /\ log[m].toolOk

(* ---------------- the sentence segmenter (app.py 247-298) ---------------- *)

MaxWords == 2
MaxTokenized == 2

\* the text of a word of the transcript, as whisper returns it
WordTexts == {<<" ", "a">>, <<" ", "a", ".">>, <<" ", "b", ".">>}
\* pause before a word and duration of a word, ms
WordGaps == {0, 500}
WordDurs == {300, 1000}
\* the sentence strings the tokenizer may return
SentenceTexts == {<<"a", ".">>, <<"b", ".">>, <<"a", " ", "b", ".">>}

RECURSIVE MkWords(_, _, _, _)
\* the list time_stamped of app.py 247-252 from texts, pauses and durations
MkWords(t, g, d, prevEnd) ==
    IF t = <<>> THEN <<>>
    ELSE LET st == prevEnd + Head(g)
             en == st + Head(d)
         IN  <<[word |-> Head(t), start |-> st, end |-> en]>>
             \o MkWords(Tail(t), Tail(g), Tail(d), en)

WordLists ==
    UNION {{MkWords(t, g, d, 0) :
                t \in [1..n -> WordTexts], g \in [1..n -> WordGaps],
                d \in [1..n -> WordDurs]} :
           n \in 0..MaxWords}

SentenceLists == UNION {[1..n -> SentenceTexts] : n \in 0..MaxTokenized}

RECURSIVE WordAt(_, _)
\* app.py 280-285: the word holding the p-th character of the flattened
\* words, 0 when there are fewer than p characters
WordAt(ts, p) ==
    IF ts = <<>> THEN 0
    ELSE IF p <= Len(Head(ts).word) THEN 1
    ELSE LET w == WordAt(Tail(ts), p - Len(Head(ts).word))
         IN  IF w = 0 THEN 0 ELSE w + 1

\* the words matched by the n characters counted after `from`
MatchedWords(ts, from, n) ==
    {WordAt(ts, p) : p \in (from + 1)..(from + n)} \ {0}

\* app.py 287-289: the list starts, as the set of its values
Starts(ts, from, n) ==
    UNION {{ts[w].start, ts[w].end} : w \in MatchedWords(ts, from, n)}

\* min(starts), max(starts)
MinOf(S) == CHOOSE x \in S : \A y \in S : x <= y

MaxOf(S) == CHOOSE x \in S : \A y \in S : x >= y

\* d[key] = val on a dict kept in insertion order
DictPut(d, key, val) ==
    IF \E n \in 1..Len(d) : d[n].key = key
    THEN [n \in 1..Len(d) |->
            IF d[n].key = key
            THEN [key |-> key, start |-> val[1], end |-> val[2]] ELSE d[n]]
    ELSE Append(d, [key |-> key, start |-> val[1], end |-> val[2]])

\* the separator between two sentences is not counted
NextLetter_NoSeparator(from, n) == from + n

\* app.py 277, 290: letter after a sentence of n characters
NextLetter(from, n) == from + n + 1

SegInit ==
    /\ time_stamped \in WordLists
    /\ sentences \in SentenceLists
    /\ letter = 0
    /\ si = 1
    /\ time_stamped_sentances = <<>>
    /\ record = <<>>
    /\ spc = "seg"
    /\ BuildIdle
    /\ records = <<>>
    /\ pc = "idle"
    /\ i = 1
    /\ previous_silence_time = 0
    /\ natural_scilence = 0
    /\ combined = <<>>
    /\ su_audio_chunks = <<>>
    /\ total_length = 0
    /\ log = <<>>
    /\ AuxIdle

\* app.py 272-293: one sentence with matched characters
SegmentSentence ==
    /\ spc = "seg"
    /\ si <= Len(sentences)
    /\ LET n  == Len(sentences[si])
           st == Starts(time_stamped, letter, n)
       IN  /\ st # {}
           /\ time_stamped_sentances' =
                 DictPut(time_stamped_sentances, sentences[si],
                         <<MinOf(st), MaxOf(st)>>)
           /\ letter' = NextLetter(letter, n)
    /\ si' = si + 1
    /\ UNCHANGED <<time_stamped, sentences, record, spc>>
    /\ UNCHANGED <<recVars, bldVars, auxVars>>

\* app.py 292: min(starts) of an empty list raises ValueError
SegmentUnmatched ==
    /\ spc = "seg"
    /\ si <= Len(sentences)
    /\ Starts(time_stamped, letter, Len(sentences[si])) = {}
    /\ spc' = "aborted"
    /\ UNCHANGED <<time_stamped, sentences, letter, si, time_stamped_sentances,
                   record>>
    /\ UNCHANGED <<recVars, bldVars, auxVars>>

\* app.py 295-298: the record list from the dict
BuildRecord ==
    /\ spc = "seg"
    /\ si > Len(sentences)
    /\ record' = [n \in 1..Len(time_stamped_sentances) |->
                    [text |-> time_stamped_sentances[n].key,
                     start |-> time_stamped_sentances[n].start,
                     end |-> time_stamped_sentances[n].end]]
    /\ spc' = "done"
    /\ UNCHANGED <<time_stamped, sentences, letter, si, time_stamped_sentances>>
    /\ UNCHANGED <<recVars, bldVars, auxVars>>

SegNext ==
    \/ SegmentSentence
    \/ SegmentUnmatched
    \/ BuildRecord

SegSpec == SegInit /\ [][SegNext]_vars

\* the characters counted before sentence k: the sentences before it and one
\* separator after each
Offset(k) == SumOver([j \in 1..Len(sentences) |-> Len(sentences[j]) + 1], 1..(k - 1))

\* the last character of word w in the flattened words
CharEnd(w) == SumOver([v \in 1..Len(time_stamped) |-> Len(time_stamped[v].word)], 1..w)

\* the words matched to the characters of sentence k
OwnWords(k) ==
    {w \in 1..Len(time_stamped) :
        \E p \in (Offset(k) + 1)..(Offset(k) + Len(sentences[k])) :
            CharEnd(w) - Len(time_stamped[w].word) < p /\ p <= CharEnd(w)}

OwnStart(k) == MinOf({time_stamped[w].start : w \in OwnWords(k)})

OwnEnd(k) == MaxOf({time_stamped[w].end : w \in OwnWords(k)})

\* C16: the record list has one entry per tokenized sentence, in transcript
\* order, each with the timestamps of that occurrence of the sentence, also
\* when a sentence text occurs more than once.
C16_OnePerSentence ==
    spc = "done" =>
        /\ Len(record) = Len(sentences)
        /\ \A k \in 1..Len(record) :
              /\ record[k].text = sentences[k]
              /\ record[k].start = OwnStart(k)
              /\ record[k].end = OwnEnd(k)

\* the entry of the dict for a sentence text
EntryOf(d, key) == d[CHOOSE n \in 1..Len(d) : d[n].key = key]

\* C17: the span computed for a sentence starts at the least start and ends
\* at the greatest end of the words matched to its characters, so start <=
\* end; a sentence with no matched character ends the run with an error and
\* no span is produced for it.
C17_Timestamps ==
    [][/\ (spc = "seg" /\ si' = si + 1) =>
            /\ OwnWords(si) # {}
            /\ \E n \in 1..Len(time_stamped_sentances') :
                  time_stamped_sentances'[n].key = sentences[si]
            /\ LET e == EntryOf(time_stamped_sentances', sentences[si])
               IN  /\ e.start = OwnStart(si)
                   /\ e.end = OwnEnd(si)
                   /\ e.start <= e.end
       /\ (spc = "seg" /\ si <= Len(sentences) /\ OwnWords(si) = {}) =>
            /\ spc' = "aborted"
            /\ record' = <<>>
            /\ time_stamped_sentances' = time_stamped_sentances
       /\ spc' = "done" =>
            /\ \A k \in 1..Len(sentences) : OwnWords(k) # {}
            /\ \A n \in 1..Len(record') :
                  /\ record'[n].start = time_stamped_sentances[n].start
                  /\ record'[n].end = time_stamped_sentances[n].end
                  /\ record'[n].start <= record'[n].end
      ]_vars

\* a first sentence matched to two words got their span, the second sentence
\* matched nothing and the run stopped
C17_Witness ==
    /\ spc = "aborted"
    /\ si = 2
    /\ Len(time_stamped) = 2
    /\ OwnWords(1) = {1, 2}
    /\ OwnWords(2) = {}
    /\ Len(time_stamped_sentances) = 1
    /\ time_stamped_sentances[1].start = time_stamped[1].start
    /\ time_stamped_sentances[1].end = time_stamped[2].end
    /\ record = <<>>

(* -------- diarization filter, fallback speaker, record loop -------- *)
(* app.py 108-114, 239, 444-485                                            *)

MaxTurns == 2
MaxBuild == 1

\* start and end of a diarization turn, ms
TurnSpans == {<<0, 1500>>, <<0, 2900>>, <<1900, 3500>>, <<2500, 4500>>}
Speakers == {"SPEAKER_00", "SPEAKER_01"}
\* start and end of a sentence, ms
SentenceSpans == {<<1000, 1500>>, <<2000, 3000>>, <<5000, 6000>>}

\* 1.5 s, the shortest turn kept (app.py 112)
MinTurn == 1500

TurnLists ==
    UNION {[1..n -> [start : {t[1] : t \in TurnSpans},
                     end : {t[2] : t \in TurnSpans},
                     speaker : Speakers]] : n \in 0..MaxTurns}

SpanLists ==
    UNION {[1..n -> {[start |-> t[1], end |-> t[2]] : t \in SentenceSpans}] :
           n \in 0..MaxBuild}

\* speakers_rolls[(start, end)] = speaker on a dict kept in insertion order
RollPut(d, t) ==
    IF \E n \in 1..Len(d) : d[n].start = t.start /\ d[n].end = t.end
    THEN [n \in 1..Len(d) |->
            IF d[n].start = t.start /\ d[n].end = t.end THEN t ELSE d[n]]
    ELSE Append(d, t)

\* a turn of exactly 1.5 s is kept as well
Retained_AtLeast(t) == Abs(t.end - t.start) >= MinTurn

\* app.py 112: abs(speech_turn.end - speech_turn.start) > 1.5
Retained(t) == Abs(t.end - t.start) > MinTurn

RECURSIVE FilterTurns(_, _)
\* app.py 108-114: the turns kept, added to the dict d in the order of tracks
FilterTurns(turns, d) ==
    IF turns = <<>> THEN d
    ELSE FilterTurns(Tail(turns),
                     IF Retained(Head(turns)) THEN RollPut(d, Head(turns)) ELSE d)

\* list(speakers_rolls.values()).count(x)
CountOf(d, x) == Cardinality({n \in 1..Len(d) : d[n].speaker = x})

\* app.py 239: max(values, key=values.count), the first value of greatest count
MostOccured(d) ==
    d[CHOOSE n \in 1..Len(d) :
        /\ \A m \in 1..Len(d) : CountOf(d, d[m].speaker) <= CountOf(d, d[n].speaker)
        /\ \A m \in 1..(n - 1) : CountOf(d, d[m].speaker) < CountOf(d, d[n].speaker)
     ].speaker

Min(a, b) == IF a <= b THEN a ELSE b

\* tools.utils.get_overlap: max(0, min(end1, end2) - max(start1, start2))
get_overlap(a, b) == Max(0, Min(a[2], b[2]) - Max(a[1], b[1]))

\* int(x) of a time in seconds, x >= 0: the whole seconds, in ms
IntSec(x) == (x \div 1000) * 1000

RECURSIVE Attribute(_, _, _, _)
\* app.py 457-472: the speaker after the loop over speakers_rolls.items()
Attribute(d, sent, speaker, max_overlap) ==
    IF d = <<>> THEN speaker
    ELSE LET overlap == get_overlap(<<sent.start, sent.end>>,
                                    <<IntSec(Head(d).start), IntSec(Head(d).end)>>)
         IN  IF overlap > max_overlap
             THEN Attribute(Tail(d), sent, Head(d).speaker, overlap)
             ELSE Attribute(Tail(d), sent, speaker, max_overlap)

\* app.py 360-364, 477-484: emotion_dict[text_lab[0]]
EmotionOf(classified) == IF classified THEN "Neutral" ELSE "None"

\* what the translate step may do: MarianMT returns (372-389) or raises;
\* with an API key (392-439) the service returns a text, or returns nothing
\* and the Groq fallback returns a text, or raises and the sentence is
\* returned
TranslateOutcomes(ctx) ==
    IF ctx THEN {"service", "fallback", "original"} ELSE {"marian", "raises"}

BuildInit ==
    /\ diarization \in TurnLists
    /\ \A n \in 1..Len(diarization) : diarization[n].start < diarization[n].end
    /\ new_record \in SpanLists
    /\ Context_translation \in BOOLEAN
    /\ speakers_rolls = <<>>
    /\ most_occured_speaker = "none"
    /\ built = <<>>
    /\ bi = 1
    /\ bpc = "diarize"
    /\ SegIdle
    /\ records = <<>>
    /\ pc = "idle"
    /\ i = 1
    /\ previous_silence_time = 0
    /\ natural_scilence = 0
    /\ combined = <<>>
    /\ su_audio_chunks = <<>>
    /\ total_length = 0
    /\ log = <<>>
    /\ AuxIdle

\* app.py 108-114
Diarize ==
    /\ bpc = "diarize"
    /\ speakers_rolls' = FilterTurns(diarization, <<>>)
    /\ bpc' = "mode"
    /\ UNCHANGED <<diarization, most_occured_speaker, new_record,
                   Context_translation, built, bi>>
    /\ UNCHANGED <<recVars, segVars, auxVars>>

\* app.py 239
FallbackSpeaker ==
    /\ bpc = "mode"
    /\ speakers_rolls # <<>>
    /\ most_occured_speaker' = MostOccured(speakers_rolls)
    /\ bpc' = "build"
    /\ UNCHANGED <<diarization, speakers_rolls, new_record,
                   Context_translation, built, bi>>
    /\ UNCHANGED <<recVars, segVars, auxVars>>

\* app.py 239: max() of an empty list raises ValueError
FallbackSpeakerFails ==
    /\ bpc = "mode"
    /\ speakers_rolls = <<>>
    /\ bpc' = "abort_mode"
    /\ UNCHANGED <<diarization, speakers_rolls, most_occured_speaker, new_record,
                   Context_translation, built, bi>>
    /\ UNCHANGED <<recVars, segVars, auxVars>>

\* app.py 447-485: one sentence record
BuildSentence ==
    /\ bpc = "build"
    /\ bi <= Len(new_record)
    /\ \E tr \in TranslateOutcomes(Context_translation) \ {"raises"},
          classified \in BOOLEAN :
         built' = Append(built,
            [translated |-> tr,
             failed |-> (tr = "original"),
             start |-> new_record[bi].start,
             end |-> new_record[bi].end,
             speaker |-> Attribute(speakers_rolls, new_record[bi],
                                   most_occured_speaker, 0),
             emotion |-> EmotionOf(classified)])
    /\ bi' = bi + 1
    /\ UNCHANGED <<diarization, speakers_rolls, most_occured_speaker, new_record,
                   Context_translation, bpc>>
    /\ UNCHANGED <<recVars, segVars, auxVars>>

\* app.py 451, 372-389: the MarianMT translate raises, nothing catches it
TranslateRaises ==
    /\ bpc = "build"
    /\ bi <= Len(new_record)
    /\ "raises" \in TranslateOutcomes(Context_translation)
    /\ bpc' = "abort_translate"
    /\ UNCHANGED <<diarization, speakers_rolls, most_occured_speaker, new_record,
                   Context_translation, built, bi>>
    /\ UNCHANGED <<recVars, segVars, auxVars>>

\* app.py 447: the loop is over
BuildFinished ==
    /\ bpc = "build"
    /\ bi > Len(new_record)
    /\ bpc' = "done"
    /\ UNCHANGED <<diarization, speakers_rolls, most_occured_speaker, new_record,
                   Context_translation, built, bi>>
    /\ UNCHANGED <<recVars, segVars, auxVars>>

BuildNext ==
    \/ Diarize
    \/ FallbackSpeaker
    \/ FallbackSpeakerFails
    \/ BuildSentence
    \/ TranslateRaises
    \/ BuildFinished

BuildSpec == BuildInit /\ [][BuildNext]_vars

\* C12: in both translation paths a failed translation of a sentence leaves
\* the original text in its record and the run goes on.
C12_TranslationFallback ==
    /\ bpc # "abort_translate"
    /\ \A k \in 1..Len(built) : built[k].failed => built[k].translated = "original"

\* the overlap of a sentence with a retained interval, on its actual times
TrueOverlap(sent, t) ==
    Max(0, Min(sent.end, t.end) - Max(sent.start, t.start))

\* the first retained interval of greatest overlap with the sentence
BestInterval(sent) ==
    CHOOSE n \in 1..Len(speakers_rolls) :
        /\ \A m \in 1..Len(speakers_rolls) :
              TrueOverlap(sent, speakers_rolls[m]) <= TrueOverlap(sent, speakers_rolls[n])
        /\ \A m \in 1..(n - 1) :
              TrueOverlap(sent, speakers_rolls[m]) < TrueOverlap(sent, speakers_rolls[n])

Overlapped(sent) ==
    \E n \in 1..Len(speakers_rolls) : TrueOverlap(sent, speakers_rolls[n]) > 0

\* C13: a sentence overlapped by some interval gets the speaker of the
\* interval whose overlap, on the actual start and end of the interval, is
\* strictly greatest, the first one in iteration order on a tie.
C13_MaximalOverlap ==
    \A k \in 1..Len(built) :
        Overlapped(built[k]) =>
            built[k].speaker = speakers_rolls[BestInterval(built[k])].speaker

\* the labels of the retained intervals
Labels == {speakers_rolls[n].speaker : n \in 1..Len(speakers_rolls)}

\* the first time a label is seen
FirstSeen(x) == MinOf({n \in 1..Len(speakers_rolls) : speakers_rolls[n].speaker = x})

\* the label on most retained intervals, the first seen on a tie
ModeLabel ==
    CHOOSE x \in Labels :
        \A y \in Labels \ {x} :
            \/ CountOf(speakers_rolls, y) < CountOf(speakers_rolls, x)
            \/ /\ CountOf(speakers_rolls, y) = CountOf(speakers_rolls, x)
               /\ FirstSeen(x) < FirstSeen(y)

\* C14: a sentence no interval overlaps gets the label that is on most
\* retained intervals, the first seen on a tie.
C14_FallbackIsMode ==
    \A k \in 1..Len(built) :
        ~ Overlapped(built[k]) => built[k].speaker = ModeLabel

\* C15: computing the fallback speaker and attributing the sentences never
\* raises, also when no interval is retained.
C15_AttributionNeverFails == bpc # "abort_mode"

(* -------- the diarization filter -------- *)

\* the turns have been filtered
Filtered == bpc \notin {"idle", "diarize"}

\* the turn lasts more than 1.5 s
LongTurn(t) == t.end - t.start > 1500

\* the fallback speaker has been computed
ModeKnown == bpc \in {"build", "done", "abort_translate"}

LastWithBounds(n) ==
    diarization[CHOOSE m \in n..Len(diarization) :
        /\ diarization[m].start = diarization[n].start
        /\ diarization[m].end = diarization[n].end
        /\ \A q \in (m + 1)..Len(diarization) :
              ~ (/\ diarization[q].start = diarization[n].start
                 /\ diarization[q].end = diarization[n].end)].speaker

C26_CreditFromGap ==
    \A k \in 1..(Len(log) - 1) :
        log[k + 1].pending = Credit(GapAfter(records, k))

\* C28: in the stretch regime the factor given to the tempo tool is at
\* least 1, the clip is never slowed down.
C28_NeverSlowed ==
    \A k \in Done :
        log[k].regime = "stretch" =>
            log[k].tempo[1].num >= log[k].tempo[1].den

\* C29: an iteration of the loop with a synthesized clip never ends in a
\* division by zero, the trimmed clip is never empty.
C29_ThetaDefined ==
    [][(pc = "loop" /\ i <= Len(records)) => pc' # "aborted"]_vars

\* the place in the track where the chunk of sentence k begins
ChunkBegin(k) ==
    PrefixSilence
    + SumOver([j \in 1..Len(log) |-> IF j \in DOMAIN su_audio_chunks
                                     THEN Duration(su_audio_chunks[j]) ELSE 0],
              1..(k - 1))

\* every stored chunk lasts at least slot + credit + extra silence
ChunksFillBudget ==
    \A k \in DOMAIN su_audio_chunks :
        Duration(su_audio_chunks[k]) >= log[k].lo + log[k].pending + log[k].extra

\* C30 as stated: every chunk fills its budget and the chunk of sentence k
\* begins no earlier than start[k] - credit[k], also after a failed
\* synthesis.
C30_NeverAhead ==
    pc \in {"loop", "done"} =>
        /\ ChunksFillBudget
        /\ \A k \in DOMAIN su_audio_chunks :
              ChunkBegin(k) >= records[k].start - log[k].pending

\* the original time from the start of each earlier sentence that was not
\* synthesized to the start of the sentence after it
SkippedBefore(k) ==
    SumOver([j \in 1..Len(log) |->
                IF j < k /\ ~ log[j].synth
                THEN records[j + 1].start - records[j].start ELSE 0],
            1..(k - 1))

\* C30, amended: every chunk fills its budget, and the chunk of sentence k
\* begins no earlier than start[k] - credit[k] less the spans of the earlier
\* sentences that were not synthesized.
C30_AheadBySkipped ==
    pc \in {"loop", "done"} =>
        /\ ChunksFillBudget
        /\ \A k \in DOMAIN su_audio_chunks :
              ChunkBegin(k) >= records[k].start - log[k].pending - SkippedBefore(k)

\* two synthesized sentences, the second with a credit; its chunk begins
\* exactly at its start less the credit
C30_Witness ==
    /\ pc = "done"
    /\ Done = {1, 2}
    /\ log[2].pending > 0
    /\ ChunkBegin(2) = records[2].start - log[2].pending

(* -------- the translation service -------- *)
(* tools/translation_service.py                                            *)

\* the provider argument of translate (the choices of app.py 806)
Providers == {"groq", "openrouter", "auto"}

\* what the API of a backend gives for one request: a text, an empty text,
\* or an error (an exception, or a status other than 200)
ApiOutcomes == {"text", "empty", "error"}

\* a returned string is truthy when it is not empty, None is not
Truthy(x) == x \notin {None, ""}

\* translation_service.py 51-106: translate_with_groq
translate_with_groq(client, api) ==
    IF ~ client THEN None
    ELSE IF api = "text" THEN "groq text"
    ELSE IF api = "empty" THEN ""
    ELSE None

\* translation_service.py 108-176: translate_with_openrouter
translate_with_openrouter(key, api) ==
    IF ~ key THEN None
    ELSE IF api = "text" THEN "openrouter text"
    ELSE IF api = "empty" THEN ""
    ELSE None

\* translation_service.py 178-210: translate, the providers called in order
\* and the value returned
translate(provider, client, key, g, o) ==
    IF provider = "groq" /\ client
    THEN [calls |-> <<"groq">>, result |-> translate_with_groq(client, g)]
    ELSE IF provider = "openrouter" /\ key
    THEN [calls |-> <<"openrouter">>, result |-> translate_with_openrouter(key, o)]
    ELSE IF provider = "auto"
    THEN LET r1 == IF key THEN translate_with_openrouter(key, o) ELSE None
             c1 == IF key THEN <<"openrouter">> ELSE <<>>
         IN  IF key /\ Truthy(r1)
             THEN [calls |-> c1, result |-> r1]
             ELSE LET r2 == IF client THEN translate_with_groq(client, g) ELSE None
                      c2 == IF client THEN Append(c1, "groq") ELSE c1
                  IN  IF client /\ Truthy(r2)
                      THEN [calls |-> c2, result |-> r2]
                      ELSE [calls |-> c2, result |-> None]
    ELSE [calls |-> <<>>, result |-> None]

\* setup_translation_service (235-251) passes the keys of the environment
TransInit ==
    /\ groq_api_key \in BOOLEAN
    /\ openrouter_api_key \in BOOLEAN
    /\ groq_client = FALSE
    /\ translation = NoCall
    /\ tpc = "new"
    /\ TtsIdle
    /\ FilesIdle
    /\ SegIdle
    /\ BuildIdle
    /\ records = <<>>
    /\ pc = "idle"
    /\ i = 1
    /\ previous_silence_time = 0
    /\ natural_scilence = 0
    /\ combined = <<>>
    /\ su_audio_chunks = <<>>
    /\ total_length = 0
    /\ log = <<>>

\* translation_service.py 10-49: __init__; Groq() may raise, the key of
\* OpenRouter is dropped when its validation fails
TranslationService_init ==
    /\ tpc = "new"
    /\ \E groqOk \in BOOLEAN, valid \in BOOLEAN :
         /\ groq_client' = (groq_api_key /\ groqOk)
         /\ openrouter_api_key' = (openrouter_api_key /\ valid)
    /\ tpc' = "ready"
    /\ UNCHANGED <<groq_api_key, translation>>
    /\ UNCHANGED <<recVars, segVars, bldVars, ttsVars, fileVars>>

\* translation_service.py 178-210: one call of translate
Translate ==
    /\ tpc = "ready"
    /\ \E provider \in Providers, g \in ApiOutcomes, o \in ApiOutcomes :
         LET t == translate(provider, groq_client, openrouter_api_key, g, o)
         IN  translation' = [called |-> TRUE, provider |-> provider,
                             groq |-> g, openrouter |-> o,
                             calls |-> t.calls, result |-> t.result]
    /\ UNCHANGED <<groq_api_key, groq_client, openrouter_api_key, tpc>>
    /\ UNCHANGED <<recVars, segVars, bldVars, ttsVars, fileVars>>

TransNext ==
    \/ TranslationService_init
    \/ Translate

TransSpec == TransInit /\ [][TransNext]_vars

\* some configured provider would return a non-empty translation
SomeProviderWorks ==
    \/ groq_client /\ translation.groq = "text"
    \/ openrouter_api_key /\ translation.openrouter = "text"

\* C23: translate returns a translation whenever some configured provider
\* would return a non-empty one, for each provider argument; with "auto"
\* OpenRouter is called first and Groq is called when OpenRouter is not
\* configured or returned nothing.
C23_NoneOnlyIfAllFail ==
    translation.called =>
        /\ SomeProviderWorks => Truthy(translation.result)
        /\ translation.provider = "auto" =>
              /\ openrouter_api_key =>
                    /\ translation.calls # <<>>
                    /\ Head(translation.calls) = "openrouter"
              /\ (\E n \in 1..Len(translation.calls) : translation.calls[n] = "groq")
                    <=> /\ groq_client
                        /\ \/ ~ openrouter_api_key
                           \/ translation.openrouter # "text"

(* -------- credentials and the TTS backends -------- *)
(* config/google_cloud_setup.py, tools/enhanced_tts.py, tools/google_tts.py *)

Unset == "<unset>"

\* values of GOOGLE_APPLICATION_CREDENTIALS in the environment
AppCredValues == {Unset, "", "/keys/a.json"}
\* values of GOOGLE_CLOUD_CREDENTIALS_PATH in the environment
CredPathValues == {Unset, "/keys/b.json"}
\* a key of the .env file, absent or with this value
DotenvAppCred == {Unset, "/keys/a.json"}
DotenvCredPath == {Unset, "/keys/b.json"}

\* the paths in their reversed order
default_paths_Reversed ==
    <<"~/.config/gcloud/application_default_credentials.json",
      "google-cloud-credentials.json",
      "config/google-cloud-credentials.json">>

\* google_cloud_setup.py 35-39
default_paths ==
    <<"config/google-cloud-credentials.json",
      "google-cloud-credentials.json",
      "~/.config/gcloud/application_default_credentials.json">>

\* the paths that may exist
Paths == {"/keys/a.json", "/keys/b.json"}
             \cup {default_paths[n] : n \in 1..Len(default_paths)}

\* os.getenv(k)
getenv(env, k) == IF env[k] = Unset THEN None ELSE env[k]

\* load_dotenv(): a key of .env is set in os.environ when it is not there
load_dotenv(env, denv) ==
    [k \in DOMAIN env |-> IF env[k] = Unset THEN denv[k] ELSE env[k]]

\* google_cloud_setup.py 21, 30: creds_path and os.path.exists(creds_path)
PathOk(v, disk) == Truthy(v) /\ v \in disk

\* google_cloud_setup.py 41-47: the first default path that exists, or None
FirstDefault(disk) ==
    IF \E n \in 1..Len(default_paths) : default_paths[n] \in disk
    THEN default_paths[CHOOSE n \in 1..Len(default_paths) :
            /\ default_paths[n] \in disk
            /\ \A m \in 1..(n - 1) : default_paths[m] \notin disk]
    ELSE None

\* google_cloud_setup.py 6-47: the path returned and os.environ after it
setup_google_cloud_credentials(env, denv, disk) ==
    IF PathOk(getenv(env, "GOOGLE_APPLICATION_CREDENTIALS"), disk)
    THEN [path |-> getenv(env, "GOOGLE_APPLICATION_CREDENTIALS"), environ |-> env]
    ELSE LET env2 == load_dotenv(env, denv)
         IN  IF PathOk(getenv(env2, "GOOGLE_CLOUD_CREDENTIALS_PATH"), disk)
             THEN [path |-> getenv(env2, "GOOGLE_CLOUD_CREDENTIALS_PATH"),
                   environ |-> env2]
             ELSE [path |-> FirstDefault(disk), environ |-> env2]

\* Coqui is set up only when no GoogleTTS object was made
NeedsCoqui_NoGoogleObject(use, g) == g = None

\* enhanced_tts.py 28
NeedsCoqui(use, g) == ~ use \/ g = None \/ g # "available"

\* enhanced_tts.py 55
UsesGoogle(use, g) == use /\ g # None /\ g = "available"

\* what the Google API gives for one request: audio, audio of no length, or
\* an error
GoogleOutcomes == {"audio", "empty", "error"}
\* what tts_to_file of Coqui does
CoquiOutcomes == {"ok", "error"}

\* google_tts.py 58-121: GoogleTTS.synthesize_speech
google_synthesize_speech(api) ==
    IF api = "audio" THEN "segment"
    ELSE IF api = "empty" THEN "empty segment"
    ELSE None

\* google_tts.py 123-152: GoogleTTS.synthesize_to_file; a segment of no
\* length is falsy
synthesize_to_file(api, exportOk) ==
    LET audio_segment == google_synthesize_speech(api)
    IN  IF audio_segment = "segment" THEN exportOk ELSE FALSE

\* enhanced_tts.py 67-88
synthesize_with_google(output_path, api, exportOk) ==
    IF output_path
    THEN (IF synthesize_to_file(api, exportOk) THEN "path" ELSE None)
    ELSE google_synthesize_speech(api)

\* enhanced_tts.py 90-120
synthesize_with_coqui(output_path, api) ==
    IF api = "error" THEN None
    ELSE IF output_path THEN "path" ELSE "segment"

\* app.py 65, 487: the environment, the .env file and the disk as the
\* credentials are looked up
TtsInit ==
    /\ environ \in [GOOGLE_APPLICATION_CREDENTIALS : AppCredValues,
                    GOOGLE_CLOUD_CREDENTIALS_PATH : CredPathValues]
    /\ dotenv \in [GOOGLE_APPLICATION_CREDENTIALS : DotenvAppCred,
                   GOOGLE_CLOUD_CREDENTIALS_PATH : DotenvCredPath]
    /\ on_disk \in SUBSET Paths
    /\ wants_google \in BOOLEAN
    /\ env_at_call = <<>>
    /\ google_credentials_path = None
    /\ use_google_tts = FALSE
    /\ google_tts = None
    /\ coqui_tts = FALSE
    /\ coqui_tried = FALSE
    /\ synthesis = NoCall
    /\ epc = "creds"
    /\ TransIdle
    /\ FilesIdle
    /\ SegIdle
    /\ BuildIdle
    /\ records = <<>>
    /\ pc = "idle"
    /\ i = 1
    /\ previous_silence_time = 0
    /\ natural_scilence = 0
    /\ combined = <<>>
    /\ su_audio_chunks = <<>>
    /\ total_length = 0
    /\ log = <<>>

\* app.py 487, google_cloud_setup.py 6-47
CredSetup ==
    /\ epc = "creds"
    /\ LET r == setup_google_cloud_credentials(environ, dotenv, on_disk)
       IN  /\ google_credentials_path' = r.path
           /\ environ' = r.environ
    /\ env_at_call' = environ
    /\ epc' = "new"
    /\ UNCHANGED <<dotenv, on_disk, wants_google, use_google_tts, google_tts,
                   coqui_tts, coqui_tried, synthesis>>
    /\ UNCHANGED <<recVars, segVars, bldVars, trVars, fileVars>>

\* app.py 488-491, enhanced_tts.py 8-35, google_tts.py 9-26: the
\* constructor; TextToSpeechClient() and TTS() may raise
EnhancedTTS_init ==
    /\ epc = "new"
    /\ LET arg == wants_google /\ google_credentials_path # None
       IN  \E clientOk \in (IF arg THEN BOOLEAN ELSE {FALSE}) :
             /\ google_tts' = IF ~ arg THEN None
                              ELSE IF clientOk THEN "available" ELSE "unavailable"
             /\ use_google_tts' = (arg /\ clientOk)
             /\ environ' = IF arg
                           THEN [environ EXCEPT !["GOOGLE_APPLICATION_CREDENTIALS"] =
                                                    google_credentials_path]
                           ELSE environ
             /\ IF NeedsCoqui(use_google_tts', google_tts')
                THEN /\ coqui_tried' = TRUE
                     /\ coqui_tts' \in BOOLEAN
                ELSE /\ coqui_tried' = FALSE
                     /\ coqui_tts' = FALSE
    /\ epc' = "ready"
    /\ UNCHANGED <<dotenv, on_disk, env_at_call, google_credentials_path,
                   wants_google, synthesis>>
    /\ UNCHANGED <<recVars, segVars, bldVars, trVars, fileVars>>

\* enhanced_tts.py 37-65: one call of synthesize_speech
synthesize_speech ==
    /\ epc = "ready"
    /\ LET google == UsesGoogle(use_google_tts, google_tts)
           coqui  == ~ google /\ coqui_tts
       IN  \E output_path \in BOOLEAN :
           \E g \in (IF google THEN GoogleOutcomes ELSE {"unused"}),
              exportOk \in (IF google /\ output_path THEN BOOLEAN ELSE {TRUE}),
              c \in (IF coqui THEN CoquiOutcomes ELSE {"unused"}) :
             synthesis' =
                [called |-> TRUE,
                 backend |-> IF google THEN "google"
                             ELSE IF coqui THEN "coqui" ELSE "none",
                 output_path |-> output_path,
                 google |-> g, exportOk |-> exportOk, coqui |-> c,
                 result |-> IF google
                            THEN synthesize_with_google(output_path, g, exportOk)
                            ELSE IF coqui
                            THEN synthesize_with_coqui(output_path, c)
                            ELSE None]
    /\ UNCHANGED <<environ, dotenv, on_disk, env_at_call, google_credentials_path,
                   wants_google, use_google_tts, google_tts, coqui_tts,
                   coqui_tried, epc>>
    /\ UNCHANGED <<recVars, segVars, bldVars, trVars, fileVars>>

TtsNext ==
    \/ CredSetup
    \/ EnhancedTTS_init
    \/ synthesize_speech

TtsSpec == TtsInit /\ [][TtsNext]_vars

\* the locations in their order of priority: the environment variable
\* GOOGLE_APPLICATION_CREDENTIALS as the function is entered,
\* GOOGLE_CLOUD_CREDENTIALS_PATH of the environment or else of the .env
\* file, then the three default paths
Locations ==
    <<env_at_call["GOOGLE_APPLICATION_CREDENTIALS"],
      IF env_at_call["GOOGLE_CLOUD_CREDENTIALS_PATH"] # Unset
      THEN env_at_call["GOOGLE_CLOUD_CREDENTIALS_PATH"]
      ELSE dotenv["GOOGLE_CLOUD_CREDENTIALS_PATH"],
      "config/google-cloud-credentials.json",
      "google-cloud-credentials.json",
      "~/.config/gcloud/application_default_credentials.json">>

\* location n names a path that exists
Exists(n) == Locations[n] \notin {Unset, ""} /\ Locations[n] \in on_disk

\* C24: the function returns the first location, in the order of priority,
\* that exists; it returns None exactly when none exists, and a returned
\* path exists.
C24_CredentialPriority ==
    epc \in {"new", "ready"} =>
        /\ google_credentials_path = None <=> (\A n \in 1..5 : ~ Exists(n))
        /\ google_credentials_path # None =>
              /\ \E n \in 1..5 :
                    /\ Exists(n)
                    /\ google_credentials_path = Locations[n]
                    /\ \A m \in 1..(n - 1) : ~ Exists(m)
              /\ google_credentials_path \in on_disk

\* both variables name files that do not exist, the first default path does
\* not exist, the second and the third do: the second is returned
C24_Witness ==
    /\ epc = "new"
    /\ env_at_call["GOOGLE_APPLICATION_CREDENTIALS"] = "/keys/a.json"
    /\ env_at_call["GOOGLE_CLOUD_CREDENTIALS_PATH"] = Unset
    /\ dotenv["GOOGLE_CLOUD_CREDENTIALS_PATH"] = "/keys/b.json"
    /\ on_disk = {"google-cloud-credentials.json",
                  "~/.config/gcloud/application_default_credentials.json"}
    /\ google_credentials_path = "google-cloud-credentials.json"

\* Google is the backend in use
GoogleUsable == use_google_tts /\ google_tts = "available"

\* the backend called by the last call failed
BackendError ==
    \/ synthesis.google = "error"
    \/ ~ synthesis.exportOk
    \/ synthesis.coqui = "error"

LeftoverPaths ==
    {"output_video.mp4", "denoised_video.mp4",
     "Wav2Lip/results/result_voice.mp4", "results/result_voice.mp4"}

\* the files under results/
ResultPaths ==
    {"results/result_voice.mp4", "results/output_video.mp4",
     "results/denoised_video.mp4"}

\* os.path.join('results', basename(src))
InResults(src) ==
    IF src = "Wav2Lip/results/result_voice.mp4" THEN "results/result_voice.mp4"
    ELSE IF src = "denoised_video.mp4" THEN "results/denoised_video.mp4"
    ELSE "results/output_video.mp4"

\* shutil.move(src, 'results'): raises when src does not exist or the
\* destination exists; nothing is done after a step has raised
Move(r, src) ==
    IF r.raised THEN r
    ELSE IF src \notin r.files \/ InResults(src) \in r.files
    THEN [files |-> r.files, raised |-> TRUE]
    ELSE [files |-> (r.files \ {src}) \cup {InResults(src)}, raised |-> FALSE]

\* os.remove(path): raises FileNotFoundError when path does not exist
Remove(r, path) ==
    IF r.raised THEN r
    ELSE IF path \notin r.files
    THEN [files |-> r.files, raised |-> TRUE]
    ELSE [files |-> r.files \ {path}, raised |-> FALSE]

\* app.py 672-698
FinalMoves(fs, lip, den) ==
    LET r == [files |-> fs, raised |-> FALSE]
    IN  IF lip /\ den
        THEN Move(Remove(Move(r, "Wav2Lip/results/result_voice.mp4"),
                         "output_video.mp4"),
                  "denoised_video.mp4")
        ELSE IF lip /\ ~ den
        THEN Remove(Remove(Move(r, "Wav2Lip/results/result_voice.mp4"),
                           "output_video.mp4"),
                    "denoised_video.mp4")
        ELSE IF ~ lip /\ den
        THEN Remove(Move(r, "denoised_video.mp4"), "output_video.mp4")
        ELSE Move(r, "output_video.mp4")

\* app.py 743-755: the path process_video returns
source_path(wav2lip, bg) ==
    IF wav2lip /\ ~ bg THEN "results/result_voice.mp4"
    ELSE IF wav2lip /\ bg THEN "results/result_voice.mp4"
    ELSE IF ~ wav2lip /\ ~ bg THEN "results/denoised_video.mp4"
    ELSE "results/output_video.mp4"

\* app.py 720-730: process_video is called
FilesInit ==
    /\ use_wav2lip \in BOOLEAN
    /\ bg_sound \in BOOLEAN
    /\ leftover \in SUBSET LeftoverPaths
    /\ cwd_files = leftover
    /\ tools \in [overlay : BOOLEAN, denoise : BOOLEAN, wav2lip : BOOLEAN]
    /\ LipSync = FALSE
    /\ Voice_denoising = FALSE
    /\ raised = FALSE
    /\ returned = NoCall
    /\ fpc = "call"
    /\ TransIdle
    /\ TtsIdle
    /\ SegIdle
    /\ BuildIdle
    /\ records = <<>>
    /\ pc = "idle"
    /\ i = 1
    /\ previous_silence_time = 0
    /\ natural_scilence = 0
    /\ combined = <<>>
    /\ su_audio_chunks = <<>>
    /\ total_length = 0
    /\ log = <<>>

\* app.py 731-742, 78-91: VideoDubbing(...) with LipSync = use_wav2lip and
\* Voice_denoising = not bg_sound; rm -r results, mkdir results
Construct ==
    /\ fpc = "call"
    /\ LipSync' = use_wav2lip
    /\ Voice_denoising' = ~ bg_sound
    /\ cwd_files' = cwd_files \ ResultPaths
    /\ fpc' = "overlay"
    /\ UNCHANGED <<use_wav2lip, bg_sound, leftover, tools, raised, returned>>
    /\ UNCHANGED <<recVars, segVars, bldVars, trVars, ttsVars>>

\* app.py 646-647: ffmpeg writes output_video.mp4
Overlay ==
    /\ fpc = "overlay"
    /\ cwd_files' = IF tools.overlay
                    THEN cwd_files \cup {"output_video.mp4"} ELSE cwd_files
    /\ fpc' = "denoise"
    /\ UNCHANGED <<use_wav2lip, bg_sound, LipSync, Voice_denoising, leftover,
                   tools, raised, returned>>
    /\ UNCHANGED <<recVars, segVars, bldVars, trVars, ttsVars>>

\* app.py 653-662: with Voice_denoising ffmpeg writes denoised_video.mp4
Denoise ==
    /\ fpc = "denoise"
    /\ cwd_files' = IF Voice_denoising /\ tools.denoise
                    THEN cwd_files \cup {"denoised_video.mp4"} ELSE cwd_files
    /\ fpc' = "lipsync"
    /\ UNCHANGED <<use_wav2lip, bg_sound, LipSync, Voice_denoising, leftover,
                   tools, raised, returned>>
    /\ UNCHANGED <<recVars, segVars, bldVars, trVars, ttsVars>>

\* app.py 663-669: with LipSync Wav2Lip reads the face video and writes
\* Wav2Lip/results/result_voice.mp4
LipSyncStep ==
    /\ fpc = "lipsync"
    /\ LET face == IF Voice_denoising THEN "denoised_video.mp4"
                   ELSE "output_video.mp4"
       IN  cwd_files' = IF LipSync /\ tools.wav2lip /\ face \in cwd_files
                        THEN cwd_files \cup {"Wav2Lip/results/result_voice.mp4"}
                        ELSE cwd_files
    /\ fpc' = "moves"
    /\ UNCHANGED <<use_wav2lip, bg_sound, LipSync, Voice_denoising, leftover,
                   tools, raised, returned>>
    /\ UNCHANGED <<recVars, segVars, bldVars, trVars, ttsVars>>

\* app.py 672-698
FinalMovesStep ==
    /\ fpc = "moves"
    /\ LET r == FinalMoves(cwd_files, LipSync, Voice_denoising)
       IN  /\ cwd_files' = r.files
           /\ raised' = r.raised
    /\ fpc' = "return"
    /\ UNCHANGED <<use_wav2lip, bg_sound, LipSync, Voice_denoising, leftover,
                   tools, returned>>
    /\ UNCHANGED <<recVars, segVars, bldVars, trVars, ttsVars>>

\* app.py 743-761: the return of process_video, or its except clause
Return ==
    /\ fpc = "return"
    /\ returned' = IF raised
                   THEN [called |-> TRUE, path |-> None, message |-> "Error"]
                   ELSE [called |-> TRUE,
                         path |-> source_path(use_wav2lip, bg_sound),
                         message |-> "No Error"]
    /\ fpc' = "returned"
    /\ UNCHANGED <<use_wav2lip, bg_sound, LipSync, Voice_denoising, leftover,
                   tools, cwd_files, raised>>
    /\ UNCHANGED <<recVars, segVars, bldVars, trVars, ttsVars>>

FilesNext ==
    \/ Construct
    \/ Overlay
    \/ Denoise
    \/ LipSyncStep
    \/ FinalMovesStep
    \/ Return

FilesSpec == FilesInit /\ [][FilesNext]_vars

\* every external tool succeeds and no file is left from an earlier run
CleanRun ==
    /\ leftover = {}
    /\ tools.overlay /\ tools.denoise /\ tools.wav2lip

\* C27: on a clean run, for each choice of use_wav2lip and bg_sound, the
\* final steps do not raise and process_video returns "No Error" with the
\* path of a file that exists under results/.
C27_ResultFile ==
    (fpc = "returned" /\ CleanRun) =>
        /\ ~ raised
        /\ returned.message = "No Error"
        /\ returned.path \in ResultPaths
        /\ returned.path \in cwd_files

====
